---- MODULE Spec2Model ----
(***************************************************************************)
(* Model of src/server.py: the vital-signs server.                         *)
(*                                                                         *)
(* State: the module globals vital_signs_data, historical_data,            *)
(* vitals_history, last_data_received, the history file, the clock, the    *)
(* position of the connection-monitor thread and of every request handler  *)
(* in flight, and the events emitted on the socket.                        *)
(*                                                                         *)
(* Strings that the code compares with <, <= or sorts (timestamps, the     *)
(* start_date / end_date arguments) are sequences of character codes,      *)
(* compared lexicographically as Python compares str.  Other strings are   *)
(* TLA+ strings.  An optional dictionary key is a pair of a "has" set of   *)
(* the keys present and a value for every key.                             *)
(***************************************************************************)
EXTENDS Integers, Sequences, FiniteSets, TLC

VARIABLES
    now,                 \* the clock read by time.time() and datetime.now()
    vital_signs_data,    \* the live snapshot dictionary
    historical_data,     \* the five deques
    last_data_received,  \* time of the last ingestion
    monpc, monWake,      \* monitor_connection: position, wake-up time of sleep(5)
    ipc, idata, inew, ict, ires,   \* receive_vital_signs, per request context:
                         \* position, request body, new snapshot, current_time, answer
    submitted,           \* payloads of the ingestions that built a snapshot, in order
    vitals_history,      \* the in-memory list of medical records
    file,                \* the contents of HISTORY_FILE
    rpc, rkind, rrec, rbuf, rres,  \* history / test POST, per request context
    rreq, rout,          \* the same: the request body, the response body
    rappended, rwrote, rfailed,    \* what the request in this context has done so far
    emits,               \* events emitted on the socket, in order
    qargs, qresp,        \* the last GET /api/vitals_history: arguments and response
    gresp,               \* the response of the last GET /api/vital_signs
    sub                  \* the events sent to the client that connected last

liveVars == <<vital_signs_data, historical_data, last_data_received>>
monVars  == <<monpc, monWake>>
ingVars  == <<ipc, idata, inew, ict, ires, submitted>>
histVars == <<vitals_history, file>>
recVars  == <<rpc, rkind, rrec, rbuf, rres, rreq, rout, rappended, rwrote, rfailed>>
qryVars  == <<qargs, qresp>>
outVars  == <<gresp, sub>>
vars == <<now, liveVars, monVars, ingVars, histVars, recVars, emits, qryVars, outVars>>

---------------------------------------------------------------------------
(* Bounds of the model *)

\* capacity of each deque of historical_data in the model (the code's maxlen
\* is 100; every property below is stated in terms of this capacity)
MaxLen == 3
\* the clock at start-up; time.time() is seconds since 1970, far beyond the timeout
StartTime == 11
\* the clock stops advancing here
MaxTime == 28
\* number of readings ingested in a behaviour
MaxIngest == 4
\* the same, where the clock runs up to MaxTime
MaxLiveIngest == 2
\* seconds that pass where the clock is not what is looked at
ShortTime == 2
\* number of records a client query finds in the history at most
MaxRecords == 3
\* number of records a connecting client finds in the history at most: more
\* than it is sent
MaxStored == 11
\* number of readings, and of records, posted where every operation of the
\* server takes part
MaxServerIngest == 1
MaxServerAppends == 1
\* number of records appended to the history in a behaviour
MaxAppends == 2

\* program constants
CONNECTION_TIMEOUT == 10
POLL_INTERVAL == 5

Handlers == {1, 2}

Min(a, b) == IF a <= b THEN a ELSE b
Max(a, b) == IF a >= b THEN a ELSE b

---------------------------------------------------------------------------
(* Strings that are ordered *)

\* Python's str comparison a <= b: lexicographic on the code points
RECURSIVE StrLeq(_, _)
StrLeq(a, b) ==
    IF a = <<>> THEN TRUE
    ELSE IF b = <<>> THEN FALSE
    ELSE IF a[1] # b[1] THEN a[1] < b[1]
    ELSE StrLeq(Tail(a), Tail(b))

StrGeq(a, b) == StrLeq(b, a)

\* datetime.now().isoformat(): a fixed-width rendering of the clock, most
\* significant digit first
isoformat(t) == <<t \div 10, t % 10>>

---------------------------------------------------------------------------
(* The live snapshot and the reading payloads *)

NumKeys == {"bpm", "spo2", "respiration_rate", "temperature_c", "temperature_f"}
StrKeys == {"bpm_status", "spo2_status", "rr_status", "temp_status",
            "signal_quality", "camera_status", "monitoring_status"}
PayloadKeys == NumKeys \cup StrKeys \cup {"connection_status"}

\* the module-level initial value of vital_signs_data
InitialSnapshot ==
    [bpm |-> 0, bpm_status |-> "Not Connected",
     spo2 |-> 0, spo2_status |-> "Not Connected",
     respiration_rate |-> 0, rr_status |-> "Not Connected",
     temperature_c |-> 0, temperature_f |-> 0, temp_status |-> "Not Connected",
     signal_quality |-> "No Signal", camera_status |-> "Not Active",
     monitoring_status |-> "STOPPED",
     last_update |-> isoformat(StartTime),
     connection_status |-> "Disconnected"]

\* A request body: kind "object" is a JSON object holding the keys in has;
\* "unparseable" is an absent or non-JSON body (get_json raises);
\* "nonobject" is JSON that is not an object (no .get / no item assignment).
Blank ==
    [bpm |-> 0, bpm_status |-> "", spo2 |-> 0, spo2_status |-> "",
     respiration_rate |-> 0, rr_status |-> "", temperature_c |-> 0,
     temperature_f |-> 0, temp_status |-> "", signal_quality |-> "",
     camera_status |-> "", monitoring_status |-> "", connection_status |-> ""]

Body(kind, has, v) == [kind |-> kind, has |-> has, v |-> v]

PayloadEmpty == Body("object", {}, Blank)
PayloadPartial ==
    Body("object", {"bpm", "spo2"}, [Blank EXCEPT !.bpm = 72, !.spo2 = 97])
PayloadFull ==
    Body("object", PayloadKeys,
         [bpm |-> 60, bpm_status |-> "Normal", spo2 |-> 99, spo2_status |-> "Normal",
          respiration_rate |-> 16, rr_status |-> "Normal", temperature_c |-> 37,
          temperature_f |-> 98, temp_status |-> "Normal",
          signal_quality |-> "Good Signal", camera_status |-> "Active",
          monitoring_status |-> "ACTIVE", connection_status |-> "Disconnected"])
PayloadUnparseable == Body("unparseable", {}, Blank)
PayloadNonObject == Body("nonobject", {}, Blank)

Payloads == {PayloadEmpty, PayloadPartial, PayloadFull,
             PayloadUnparseable, PayloadNonObject}

\* data.get(key, default)
Get(data, key, default) == IF key \in data.has THEN data.v[key] ELSE default

\* a dictionary literal that takes connection_status from the payload
NewSnapshotStatusFromPayload(data, t) ==
    [bpm |-> Get(data, "bpm", 0),
     bpm_status |-> Get(data, "bpm_status", "Unknown"),
     spo2 |-> Get(data, "spo2", 0),
     spo2_status |-> Get(data, "spo2_status", "Unknown"),
     respiration_rate |-> Get(data, "respiration_rate", 0),
     rr_status |-> Get(data, "rr_status", "Unknown"),
     temperature_c |-> Get(data, "temperature_c", 0),
     temperature_f |-> Get(data, "temperature_f", 0),
     temp_status |-> Get(data, "temp_status", "Unknown"),
     signal_quality |-> Get(data, "signal_quality", "Unknown"),
     camera_status |-> Get(data, "camera_status", "Unknown"),
     monitoring_status |-> Get(data, "monitoring_status", "Unknown"),
     last_update |-> isoformat(t),
     connection_status |-> Get(data, "connection_status", "Connected")]

\* the dictionary literal of receive_vital_signs, evaluated at clock t
NewSnapshot(data, t) ==
    [bpm |-> Get(data, "bpm", 0),
     bpm_status |-> Get(data, "bpm_status", "Unknown"),
     spo2 |-> Get(data, "spo2", 0),
     spo2_status |-> Get(data, "spo2_status", "Unknown"),
     respiration_rate |-> Get(data, "respiration_rate", 0),
     rr_status |-> Get(data, "rr_status", "Unknown"),
     temperature_c |-> Get(data, "temperature_c", 0),
     temperature_f |-> Get(data, "temperature_f", 0),
     temp_status |-> Get(data, "temp_status", "Unknown"),
     signal_quality |-> Get(data, "signal_quality", "Unknown"),
     camera_status |-> Get(data, "camera_status", "Unknown"),
     monitoring_status |-> Get(data, "monitoring_status", "Unknown"),
     last_update |-> isoformat(t),
     connection_status |-> "Connected"]

\* a bounded buffer that refuses the newest entry when full
DequeAppendDropNewest(q, x) ==
    IF Len(q) >= MaxLen THEN q ELSE Append(q, x)

\* deque(maxlen=MaxLen).append(x): the oldest entry is dropped when full
DequeAppend(q, x) ==
    IF Len(q) >= MaxLen THEN Append(Tail(q), x) ELSE Append(q, x)

EmptyHistorical ==
    [bpm |-> <<>>, spo2 |-> <<>>, respiration_rate |-> <<>>,
     temperature |-> <<>>, timestamps |-> <<>>]

---------------------------------------------------------------------------
(* monitor_connection: the daemon thread *)

\* a monitor that waits for twice the timeout
MonCheckLate ==
    /\ monpc = "sleep"
    /\ now >= monWake
    /\ IF now - last_data_received > 2 * CONNECTION_TIMEOUT
       THEN /\ monpc' = "set_connection"
            /\ UNCHANGED monWake
       ELSE /\ monpc' = "sleep"
            /\ monWake' = now + POLL_INTERVAL
    /\ UNCHANGED <<now, liveVars, ingVars, histVars, recVars, emits, qryVars, outVars>>

\* current_time = time.time(), at thread start and after every sleep(5);
\* if current_time - last_data_received > CONNECTION_TIMEOUT
MonCheck ==
    /\ monpc = "sleep"
    /\ now >= monWake
    /\ IF now - last_data_received > CONNECTION_TIMEOUT
       THEN /\ monpc' = "set_connection"
            /\ UNCHANGED monWake
       ELSE /\ monpc' = "sleep"
            /\ monWake' = now + POLL_INTERVAL
    /\ UNCHANGED <<now, liveVars, ingVars, histVars, recVars, emits, qryVars, outVars>>

\* vital_signs_data['connection_status'] = 'Disconnected'
MonSetConnection ==
    /\ monpc = "set_connection"
    /\ vital_signs_data' = [vital_signs_data EXCEPT !.connection_status = "Disconnected"]
    /\ monpc' = "set_monitoring"
    /\ UNCHANGED <<now, historical_data, last_data_received, monWake, ingVars,
                   histVars, recVars, emits, qryVars, outVars>>

\* vital_signs_data['monitoring_status'] = 'DISCONNECTED'; time.sleep(5)
MonSetMonitoring ==
    /\ monpc = "set_monitoring"
    /\ vital_signs_data' = [vital_signs_data EXCEPT !.monitoring_status = "DISCONNECTED"]
    /\ monpc' = "sleep"
    /\ monWake' = now + POLL_INTERVAL
    /\ UNCHANGED <<now, historical_data, last_data_received, ingVars,
                   histVars, recVars, emits, qryVars, outVars>>


---------------------------------------------------------------------------
(* receive_vital_signs: POST /api/vital_signs, in request context h *)

Event(name, data) == [event |-> name, data |-> data]

\* a handler that takes whatever arrives for an empty object
IngestBuildUnchecked(h, data) ==
    /\ ipc[h] = "idle"
    /\ Len(submitted) < MaxIngest
    /\ idata' = [idata EXCEPT ![h] = data]
    /\ inew' = [inew EXCEPT ![h] = NewSnapshot(data, now)]
    /\ ipc' = [ipc EXCEPT ![h] = "update"]
    /\ ires' = [ires EXCEPT ![h] = "none"]
    /\ submitted' = Append(submitted, data)
    /\ UNCHANGED <<now, liveVars, monVars, ict, histVars, recVars, emits, qryVars, outVars>>

\* request.get_json() and the evaluation of the dictionary literal.  A body
\* that is no JSON object raises before anything is written: the handler
\* answers status 'error' with HTTP 400.
IngestBuild(h, data) ==
    /\ ipc[h] = "idle"
    /\ IF data.kind = "object"
       THEN /\ Len(submitted) < MaxIngest
            /\ idata' = [idata EXCEPT ![h] = data]
            /\ inew' = [inew EXCEPT ![h] = NewSnapshot(data, now)]
            /\ ipc' = [ipc EXCEPT ![h] = "update"]
            /\ ires' = [ires EXCEPT ![h] = "none"]
            /\ submitted' = Append(submitted, data)
       ELSE /\ idata' = [idata EXCEPT ![h] = data]
            /\ ires' = [ires EXCEPT ![h] = "error"]
            /\ UNCHANGED <<ipc, inew, submitted>>
    /\ UNCHANGED <<now, liveVars, monVars, ict, histVars, recVars, emits, qryVars, outVars>>

\* vital_signs_data.update({...}): all fourteen keys are overwritten at once
IngestUpdate(h) ==
    /\ ipc[h] = "update"
    /\ vital_signs_data' = inew[h]
    /\ ipc' = [ipc EXCEPT ![h] = "clock"]
    /\ UNCHANGED <<now, historical_data, last_data_received, monVars, idata, inew,
                   ict, ires, submitted, histVars, recVars, emits, qryVars, outVars>>

\* current_time = datetime.now().isoformat()
IngestClock(h) ==
    /\ ipc[h] = "clock"
    /\ ict' = [ict EXCEPT ![h] = isoformat(now)]
    /\ ipc' = [ipc EXCEPT ![h] = "bpm"]
    /\ UNCHANGED <<now, liveVars, monVars, idata, inew, ires, submitted,
                   histVars, recVars, emits, qryVars, outVars>>

\* historical_data[key].append(value), one deque at a time
IngestAppend(h, at, key, value, next) ==
    /\ ipc[h] = at
    /\ historical_data' =
           [historical_data EXCEPT ![key] = DequeAppend(historical_data[key], value)]
    /\ ipc' = [ipc EXCEPT ![h] = next]
    /\ UNCHANGED <<now, vital_signs_data, last_data_received, monVars, idata, inew,
                   ict, ires, submitted, histVars, recVars, emits, qryVars, outVars>>

IngestAppendBpm(h) ==
    IngestAppend(h, "bpm", "bpm", Get(idata[h], "bpm", 0), "spo2")
IngestAppendSpo2(h) ==
    IngestAppend(h, "spo2", "spo2", Get(idata[h], "spo2", 0), "respiration_rate")
IngestAppendRespiration(h) ==
    IngestAppend(h, "respiration_rate", "respiration_rate",
                 Get(idata[h], "respiration_rate", 0), "temperature")
IngestAppendTemperature(h) ==
    IngestAppend(h, "temperature", "temperature",
                 Get(idata[h], "temperature_c", 0), "timestamps")
IngestAppendTimestamp(h) ==
    IngestAppend(h, "timestamps", "timestamps", ict[h], "last")

\* last_data_received = time.time()
IngestSetLast(h) ==
    /\ ipc[h] = "last"
    /\ last_data_received' = now
    /\ ipc' = [ipc EXCEPT ![h] = "emit"]
    /\ UNCHANGED <<now, vital_signs_data, historical_data, monVars, idata, inew,
                   ict, ires, submitted, histVars, recVars, emits, qryVars, outVars>>

\* socketio.emit('vital_signs_update', vital_signs_data); return success
IngestEmitReturn(h) ==
    /\ ipc[h] = "emit"
    /\ emits' = Append(emits, Event("vital_signs_update", vital_signs_data))
    /\ ires' = [ires EXCEPT ![h] = "success"]
    /\ ipc' = [ipc EXCEPT ![h] = "idle"]
    /\ UNCHANGED <<now, liveVars, monVars, idata, inew, ict, submitted,
                   histVars, recVars, qryVars, outVars>>

---------------------------------------------------------------------------
(* Medical records, the history file *)

RecordKeys == {"patient_id", "record_id", "timestamp", "trigger_type", "vital_signs"}

\* A medical record: the keys it holds and their values ("vital_signs" stands
\* for the complete nested object).  record_id is a pair <<prefix, number>>.
NoId == <<"", 0>>
Rec(has, pid, rid, ts) ==
    [has |-> has, patient_id |-> pid, record_id |-> rid, timestamp |-> ts]

\* r.get('timestamp', '')
RecTimestamp(r) == IF "timestamp" \in r.has THEN r.timestamp ELSE <<>>

\* the dictionary literal of create_test_record, evaluated at clock t:
\* record_id is f"test_record_{int(time.time())}"
TestRecord(t) == Rec(RecordKeys, "test_patient", <<"test_record", t>>, isoformat(t))

RecComplete == Rec(RecordKeys, "A", <<"r", 1>>, <<9>>)
RecOld == Rec(RecordKeys, "B", <<"r", 2>>, <<0, 5>>)
RecNoTimestamp == Rec({"patient_id", "trigger_type", "vital_signs"}, "B", NoId, <<>>)
RecNoTrigger == Rec({"patient_id", "timestamp", "vital_signs"}, "A", NoId, <<0, 5>>)
RecNoVitals == Rec({"trigger_type"}, "", NoId, <<>>)

HBody(kind, rec) == [kind |-> kind, rec |-> rec]
\* a request without a body
NoBody == HBody("none", RecNoVitals)
HistoryBodies ==
    {HBody("object", r) : r \in {RecComplete, RecNoTimestamp, RecNoTrigger}}
    \cup {HBody("unparseable", RecNoVitals), HBody("nonobject", RecNoVitals)}

\* The file: recs is what its bytes hold, record by record; valid says that
\* the bytes are one complete json.dump of recs.
NoFile == [recs |-> <<>>, valid |-> FALSE]

\* load_vitals_history: the list json.load returns; a missing, empty or
\* damaged file gives the empty list
Loaded(f) == IF f.valid THEN f.recs ELSE <<>>

\* closing the handle flushes the buffered dump at offset 0: bytes that another
\* handle wrote beyond its end stay in the file
Flushed(f, buf) ==
    IF Len(f.recs) > Len(buf)
    THEN [recs |-> buf \o SubSeq(f.recs, Len(buf) + 1, Len(f.recs)), valid |-> FALSE]
    ELSE [recs |-> buf, valid |-> TRUE]

---------------------------------------------------------------------------
(* receive_vitals_history and create_test_record, in request context r *)

InFlight == Cardinality({r \in Handlers : rpc[r] = "append"})

\* A response body: its status, the keys it holds, and the values of
\* 'record_id' and 'record' where it holds them.
Reply(status, has, rid, rec) ==
    [status |-> status, has |-> has, record_id |-> rid, record |-> rec]

NoReply == Reply("none", {}, NoId, RecNoVitals)

\* jsonify({'status': 'error', 'message': str(e)}), 400 or 500
ErrorReply == Reply("error", {"status", "message"}, NoId, RecNoVitals)

\* jsonify({'status': 'success', 'message': 'Medical record saved',
\*          'record_id': medical_record.get('record_id')}): None where the
\* record has no record_id
HistoryReply(rec) ==
    Reply("success", {"status", "message", "record_id"},
          IF "record_id" \in rec.has THEN rec.record_id ELSE NoId, RecNoVitals)

\* jsonify({'status': 'success', 'message': 'Test record created',
\*          'record': test_record})
TestReply(rec) == Reply("success", {"status", "message", "record"}, NoId, rec)

\* a handler that stores the record as it came, without a timestamp of its own
HistoryBeginUnstamped(r, body) ==
    /\ rpc[r] = "idle"
    /\ IF body.kind = "object"
       THEN /\ Len(vitals_history) + InFlight < MaxAppends
            /\ rrec' = [rrec EXCEPT ![r] = body.rec]
            /\ rkind' = [rkind EXCEPT ![r] = "history"]
            /\ rpc' = [rpc EXCEPT ![r] = "append"]
            /\ rres' = [rres EXCEPT ![r] = "none"]
            /\ rout' = [rout EXCEPT ![r] = NoReply]
            /\ rappended' = [rappended EXCEPT ![r] = FALSE]
            /\ rwrote' = [rwrote EXCEPT ![r] = FALSE]
            /\ rfailed' = [rfailed EXCEPT ![r] = FALSE]
       ELSE /\ rres' = [rres EXCEPT ![r] = "error"]
            /\ rout' = [rout EXCEPT ![r] = ErrorReply]
            /\ rkind' = [rkind EXCEPT ![r] = "history"]
            /\ rappended' = [rappended EXCEPT ![r] = FALSE]
            /\ rwrote' = [rwrote EXCEPT ![r] = FALSE]
            /\ rfailed' = [rfailed EXCEPT ![r] = FALSE]
            /\ UNCHANGED <<rpc, rrec>>
    /\ rreq' = [rreq EXCEPT ![r] = body]
    /\ UNCHANGED <<now, liveVars, monVars, ingVars, histVars, rbuf, emits, qryVars, outVars>>

\* request.get_json(); if 'timestamp' not in medical_record: set it.
\* A body that is no JSON object raises here: status 'error', HTTP 400.
HistoryBegin(r, body) ==
    /\ rpc[r] = "idle"
    /\ IF body.kind = "object"
       THEN /\ Len(vitals_history) + InFlight < MaxAppends
            /\ rrec' = [rrec EXCEPT ![r] =
                   IF "timestamp" \in body.rec.has THEN body.rec
                   ELSE [body.rec EXCEPT !.has = @ \cup {"timestamp"},
                                         !.timestamp = isoformat(now)]]
            /\ rkind' = [rkind EXCEPT ![r] = "history"]
            /\ rpc' = [rpc EXCEPT ![r] = "append"]
            /\ rres' = [rres EXCEPT ![r] = "none"]
            /\ rout' = [rout EXCEPT ![r] = NoReply]
            /\ rappended' = [rappended EXCEPT ![r] = FALSE]
            /\ rwrote' = [rwrote EXCEPT ![r] = FALSE]
            /\ rfailed' = [rfailed EXCEPT ![r] = FALSE]
       ELSE /\ rres' = [rres EXCEPT ![r] = "error"]
            /\ rout' = [rout EXCEPT ![r] = ErrorReply]
            /\ rkind' = [rkind EXCEPT ![r] = "history"]
            /\ rappended' = [rappended EXCEPT ![r] = FALSE]
            /\ rwrote' = [rwrote EXCEPT ![r] = FALSE]
            /\ rfailed' = [rfailed EXCEPT ![r] = FALSE]
            /\ UNCHANGED <<rpc, rrec>>
    /\ rreq' = [rreq EXCEPT ![r] = body]
    /\ UNCHANGED <<now, liveVars, monVars, ingVars, histVars, rbuf, emits, qryVars, outVars>>

\* test_record = {...}
TestBegin(r) ==
    /\ rpc[r] = "idle"
    /\ Len(vitals_history) + InFlight < MaxAppends
    /\ rrec' = [rrec EXCEPT ![r] = TestRecord(now)]
    /\ rkind' = [rkind EXCEPT ![r] = "test"]
    /\ rpc' = [rpc EXCEPT ![r] = "append"]
    /\ rres' = [rres EXCEPT ![r] = "none"]
    /\ rreq' = [rreq EXCEPT ![r] = NoBody]
    /\ rout' = [rout EXCEPT ![r] = NoReply]
    /\ rappended' = [rappended EXCEPT ![r] = FALSE]
    /\ rwrote' = [rwrote EXCEPT ![r] = FALSE]
    /\ rfailed' = [rfailed EXCEPT ![r] = FALSE]
    /\ UNCHANGED <<now, liveVars, monVars, ingVars, histVars, rbuf, emits, qryVars, outVars>>

\* an append that puts the record in front of the collection
HistoryAppendInFront(r) ==
    /\ rpc[r] = "append"
    /\ vitals_history' = <<rrec[r]>> \o vitals_history
    /\ rappended' = [rappended EXCEPT ![r] = TRUE]
    /\ rpc' = [rpc EXCEPT ![r] = "open"]
    /\ UNCHANGED <<now, liveVars, monVars, ingVars, file, rkind, rrec, rreq, rout,
                   rbuf, rres,
                   rwrote, rfailed, emits, qryVars, outVars>>

\* vitals_history.append(record)
HistoryAppend(r) ==
    /\ rpc[r] = "append"
    /\ vitals_history' = Append(vitals_history, rrec[r])
    /\ rappended' = [rappended EXCEPT ![r] = TRUE]
    /\ rpc' = [rpc EXCEPT ![r] = "open"]
    /\ UNCHANGED <<now, liveVars, monVars, ingVars, file, rkind, rrec, rreq, rout,
                   rbuf, rres,
                   rwrote, rfailed, emits, qryVars, outVars>>

\* save_vitals_history: open(HISTORY_FILE, 'w') truncates the file; when the
\* open fails the exception is caught and printed, and the caller goes on
SaveOpen(r, ok) ==
    /\ rpc[r] = "open"
    /\ IF ok
       THEN /\ file' = NoFile
            /\ rwrote' = [rwrote EXCEPT ![r] = TRUE]
            /\ rpc' = [rpc EXCEPT ![r] = "dump"]
            /\ UNCHANGED rfailed
       ELSE /\ rfailed' = [rfailed EXCEPT ![r] = TRUE]
            /\ rpc' = [rpc EXCEPT ![r] = "saved"]
            /\ UNCHANGED <<file, rwrote>>
    /\ UNCHANGED <<now, liveVars, monVars, ingVars, vitals_history, rkind, rrec,
                   rreq, rout, rbuf, rres, rappended, emits, qryVars, outVars>>

\* json.dump(vitals_history, f, indent=2): the list as it is now goes to the
\* handle's buffer
SaveDump(r) ==
    /\ rpc[r] = "dump"
    /\ rbuf' = [rbuf EXCEPT ![r] = vitals_history]
    /\ rpc' = [rpc EXCEPT ![r] = "close"]
    /\ UNCHANGED <<now, liveVars, monVars, ingVars, histVars, rkind, rrec, rreq, rout, rres,
                   rappended, rwrote, rfailed, emits, qryVars, outVars>>

\* leaving the with block closes the handle; a failed write leaves a damaged
\* file, the exception is caught and printed, and the caller goes on
SaveClose(r, ok) ==
    /\ rpc[r] = "close"
    /\ IF ok
       THEN /\ file' = Flushed(file, rbuf[r])
            /\ UNCHANGED rfailed
       ELSE /\ file' = [file EXCEPT !.valid = FALSE]
            /\ rfailed' = [rfailed EXCEPT ![r] = TRUE]
    /\ rpc' = [rpc EXCEPT ![r] = "saved"]
    /\ UNCHANGED <<now, liveVars, monVars, ingVars, vitals_history, rkind, rrec,
                   rreq, rout, rbuf, rres, rappended, rwrote, emits, qryVars, outVars>>

\* the record has what the print of receive_vitals_history subscripts
Printable(rec) == {"trigger_type", "vital_signs"} \subseteq rec.has

\* print(...) (receive_vitals_history only: a KeyError gives status 'error',
\* HTTP 400); socketio.emit('new_vitals_record', record); return success
HistoryEmitReturn(r) ==
    /\ rpc[r] = "saved"
    /\ IF rkind[r] = "history" /\ ~Printable(rrec[r])
       THEN /\ rres' = [rres EXCEPT ![r] = "error"]
            /\ rout' = [rout EXCEPT ![r] = ErrorReply]
            /\ UNCHANGED emits
       ELSE /\ emits' = Append(emits, Event("new_vitals_record", rrec[r]))
            /\ rres' = [rres EXCEPT ![r] = "success"]
            /\ rout' = [rout EXCEPT ![r] =
                   IF rkind[r] = "history" THEN HistoryReply(rrec[r])
                   ELSE TestReply(rrec[r])]
    /\ rpc' = [rpc EXCEPT ![r] = "idle"]
    /\ UNCHANGED <<now, liveVars, monVars, ingVars, histVars, rkind, rrec, rreq, rbuf,
                   rappended, rwrote, rfailed, qryVars, outVars>>

---------------------------------------------------------------------------
(* get_vitals_history: GET /api/vitals_history *)

ArgKeys == {"limit", "patient_id", "start_date", "end_date"}

\* request.args: the parameters present and their values; limit is the
\* value after type=int
Args(has, limit, pid, sd, ed) ==
    [has |-> has, limit |-> limit, patient_id |-> pid, start_date |-> sd, end_date |-> ed]

NoArgs == Args({}, 0, "", <<>>, <<>>)

\* Python truth of request.args.get(key): present and neither '' nor 0
Truthy(args, key) ==
    /\ key \in args.has
    /\ CASE key = "limit" -> args.limit # 0
         [] key = "patient_id" -> args.patient_id # ""
         [] key = "start_date" -> args.start_date # <<>>
         [] key = "end_date" -> args.end_date # <<>>

\* [r for r in records if r.get('patient_id') == patient_id]
FilterPatient(records, patient_id) ==
    LET Keep(r) == "patient_id" \in r.has /\ r.patient_id = patient_id
    IN  SelectSeq(records, Keep)

\* [r for r in records if r.get('timestamp', '') >= start_date]
FilterStart(records, start_date) ==
    LET Keep(r) == StrGeq(RecTimestamp(r), start_date)
    IN  SelectSeq(records, Keep)

\* an end_date filter with the comparison turned around
FilterEndReversed(records, end_date) ==
    LET Keep(r) == StrGeq(RecTimestamp(r), end_date)
    IN  SelectSeq(records, Keep)

\* [r for r in records if r.get('timestamp', '') <= end_date]
FilterEnd(records, end_date) ==
    LET Keep(r) == StrLeq(RecTimestamp(r), end_date)
    IN  SelectSeq(records, Keep)

\* a sort that leaves the records in the order of arrival
InsertAtEnd(sorted, x) == Append(sorted, x)

\* x goes behind every element whose key is >= its own: the order among
\* equal keys is the order of arrival, as sorted(..., reverse=True) keeps it
InsertDescending(sorted, x) ==
    LET k == Cardinality({i \in DOMAIN sorted :
                             StrGeq(RecTimestamp(sorted[i]), RecTimestamp(x))})
    IN  SubSeq(sorted, 1, k) \o <<x>> \o SubSeq(sorted, k + 1, Len(sorted))

\* sorted(records, key=lambda x: x.get('timestamp', ''), reverse=True)
RECURSIVE SortedDescending(_)
SortedDescending(records) ==
    IF records = <<>> THEN <<>>
    ELSE InsertDescending(SortedDescending(SubSeq(records, 1, Len(records) - 1)),
                          records[Len(records)])

\* records[:n]
SliceTo(records, n) ==
    IF n >= 0 THEN SubSeq(records, 1, Min(n, Len(records)))
    ELSE SubSeq(records, 1, Max(Len(records) + n, 0))

\* the three filters of get_vitals_history, each applied if its argument is true
Filtered(records, args) ==
    LET byPatient == IF Truthy(args, "patient_id")
                     THEN FilterPatient(records, args.patient_id) ELSE records
        byStart == IF Truthy(args, "start_date")
                   THEN FilterStart(byPatient, args.start_date) ELSE byPatient
    IN  IF Truthy(args, "end_date") THEN FilterEnd(byStart, args.end_date) ELSE byStart

\* a query that cuts to the limit before it sorts
QueryRecordsLimitFirst(records, args) ==
    LET found == Filtered(records, args)
    IN  SortedDescending(IF Truthy(args, "limit") THEN SliceTo(found, args.limit)
                         ELSE found)

\* filter, then sort, then limit
QueryRecords(records, args) ==
    LET sorted == SortedDescending(Filtered(records, args))
    IN  IF Truthy(args, "limit") THEN SliceTo(sorted, args.limit) ELSE sorted

NoResponse == [status |-> 0, records |-> <<>>, total_count |-> 0, filtered_count |-> 0]

GetVitalsHistory(args) ==
    /\ qargs' = args
    /\ qresp' = LET recs == QueryRecords(vitals_history, args)
                IN  [status |-> 200, records |-> recs,
                     total_count |-> Len(vitals_history),
                     filtered_count |-> Len(recs)]
    /\ UNCHANGED <<now, liveVars, monVars, ingVars, histVars, recVars, emits, outVars>>

---------------------------------------------------------------------------
(* get_vital_signs: GET /api/vital_signs *)

\* return jsonify(vital_signs_data)
GetVitalSigns ==
    /\ gresp' = vital_signs_data
    /\ UNCHANGED <<now, liveVars, monVars, ingVars, histVars, recVars, emits,
                   qryVars, sub>>

---------------------------------------------------------------------------
(* handle_connect: a client connects to the socket *)

\* the number of records sent to a client that connects
RECENT_RECORDS == 10

\* a connect that cuts the collection before it sorts it
RecentRecordsUnsorted(records) ==
    SortedDescending(SliceTo(records, RECENT_RECORDS))

\* sorted(vitals_history, key=lambda x: x.get('timestamp', ''),
\*        reverse=True)[:10]
RecentRecords(records) == SliceTo(SortedDescending(records), RECENT_RECORDS)

\* emit('vital_signs_update', vital_signs_data);
\* emit('vitals_history_update', recent_records): both to the client that
\* connected
HandleConnect ==
    /\ sub' = <<Event("vital_signs_update", vital_signs_data),
                Event("vitals_history_update", RecentRecords(vitals_history))>>
    /\ UNCHANGED <<now, liveVars, monVars, ingVars, histVars, recVars, emits,
                   qryVars, gresp>>

---------------------------------------------------------------------------
(* The clock *)

\* one second passes
Tick ==
    /\ now < MaxTime
    /\ now' = now + 1
    /\ UNCHANGED <<liveVars, monVars, ingVars, histVars, recVars, emits, qryVars, outVars>>

\* a handler or a monitor pass takes no time on the scale of seconds, and
\* sleep(5) returns on time
Quiescent ==
    /\ \A h \in Handlers : ipc[h] = "idle" /\ rpc[h] = "idle"
    /\ monpc = "sleep"
    /\ now < monWake

TickQuiescent == Quiescent /\ Tick

---------------------------------------------------------------------------
(* Specifications *)

\* the state after the module has been imported with the history file f on disk
InitWith(f) ==
    /\ now = StartTime
    /\ vital_signs_data = InitialSnapshot
    /\ historical_data = EmptyHistorical
    /\ last_data_received = 0
    /\ monpc = "sleep"
    /\ monWake = StartTime
    /\ ipc = [h \in Handlers |-> "idle"]
    /\ idata = [h \in Handlers |-> PayloadEmpty]
    /\ inew = [h \in Handlers |-> InitialSnapshot]
    /\ ict = [h \in Handlers |-> isoformat(StartTime)]
    /\ ires = [h \in Handlers |-> "none"]
    /\ submitted = <<>>
    /\ file = f
    /\ vitals_history = Loaded(f)
    /\ rpc = [h \in Handlers |-> "idle"]
    /\ rkind = [h \in Handlers |-> "history"]
    /\ rrec = [h \in Handlers |-> RecNoVitals]
    /\ rbuf = [h \in Handlers |-> <<>>]
    /\ rres = [h \in Handlers |-> "none"]
    /\ rreq = [h \in Handlers |-> NoBody]
    /\ rout = [h \in Handlers |-> NoReply]
    /\ rappended = [h \in Handlers |-> FALSE]
    /\ rwrote = [h \in Handlers |-> FALSE]
    /\ rfailed = [h \in Handlers |-> FALSE]
    /\ emits = <<>>
    /\ qargs = NoArgs
    /\ qresp = NoResponse
    /\ gresp = InitialSnapshot
    /\ sub = <<>>

\* the server starts without a history file
Init == InitWith(NoFile)

Monitor == MonCheck \/ MonSetConnection \/ MonSetMonitoring

\* the steps of a reading being ingested in context h, after the first
IngestSteps(h) ==
    \/ IngestUpdate(h)
    \/ IngestClock(h)
    \/ IngestAppendBpm(h)
    \/ IngestAppendSpo2(h)
    \/ IngestAppendRespiration(h)
    \/ IngestAppendTemperature(h)
    \/ IngestAppendTimestamp(h)
    \/ IngestSetLast(h)
    \/ IngestEmitReturn(h)

\* One device posting readings one after the other, the monitor thread, and
\* the clock over the whole range: timeout and polling.
NextLive ==
    \/ Monitor
    \/ TickQuiescent
    \/ \E data \in {PayloadPartial, PayloadFull, PayloadNonObject} :
           Len(submitted) < MaxLiveIngest /\ IngestBuild(1, data)
    \/ IngestSteps(1)

SpecLive == Init /\ [][NextLive]_vars

\* One device posting readings one after the other and the monitor thread:
\* every payload, more readings than the deques hold.
NextIngest ==
    \/ Monitor
    \/ (now < StartTime + ShortTime /\ TickQuiescent)
    \/ \E data \in Payloads : IngestBuild(1, data)
    \/ IngestSteps(1)

SpecIngest == Init /\ [][NextIngest]_vars

---------------------------------------------------------------------------
(* Claims about ingestion and the connection monitor *)

\* the last n entries of s
LastN(s, n) == SubSeq(s, Len(s) - n + 1, Len(s))

\* what the readings ingested so far gave for a payload key, 0 where absent
SubmittedValues(key) == [i \in 1..Len(submitted) |-> Get(submitted[i], key, 0)]

\* the payload key that feeds each metric deque
MetricKey ==
    [bpm |-> "bpm", spo2 |-> "spo2", respiration_rate |-> "respiration_rate",
     temperature |-> "temperature_c"]

\* C1: after N readings ingested one after the other from the empty buffer,
\* each of the bpm, spo2, respiration_rate and temperature deques holds
\* min(N, capacity) entries, the last min(N, capacity) values submitted for
\* that metric (0 where the payload has none), in the order submitted.
C1_BufferHoldsLastReadings ==
    ipc[1] = "idle" =>
        \A m \in DOMAIN MetricKey :
            historical_data[m] =
                LastN(SubmittedValues(MetricKey[m]), Min(Len(submitted), MaxLen))

\* more readings than the deques hold have been ingested and the oldest is gone
C1_Witness ==
    /\ ipc[1] = "idle"
    /\ Len(submitted) > MaxLen
    /\ Len(historical_data.bpm) = MaxLen
    /\ historical_data.bpm # SubSeq(SubmittedValues("bpm"), 1, MaxLen)

\* the moment by which the monitor must have acted: one polling interval
\* after the timeout has run out (or after start-up, when it had run out before)
Deadline == Max(last_data_received + CONNECTION_TIMEOUT, StartTime) + POLL_INTERVAL

Demoted ==
    /\ vital_signs_data.connection_status = "Disconnected"
    /\ vital_signs_data.monitoring_status = "DISCONNECTED"

\* C2: when nothing has been ingested for more than CONNECTION_TIMEOUT, then
\* one polling interval after the timeout ran out the snapshot says
\* 'Disconnected' / 'DISCONNECTED'; also when no reading ever arrived.
C2_DemotedWithinOnePoll ==
    (ipc[1] = "idle" /\ now > Deadline) => Demoted

\* a reading was ingested, then silence, past the deadline
C2_Witness ==
    /\ ipc[1] = "idle"
    /\ last_data_received > 0
    /\ now > Deadline
    /\ Demoted

\* C3: an ingestion restores Connected: once the POST has answered success,
\* and for as long as no more than the timeout has passed since, the
\* snapshot's connection_status is 'Connected', however the handler's steps
\* interleave with a pass of the monitor.
C3_IngestionRestoresConnected ==
    (/\ ipc[1] = "idle"
     /\ ires[1] = "success"
     /\ now - last_data_received <= CONNECTION_TIMEOUT)
        => vital_signs_data.connection_status = "Connected"

\* C4: a malformed reading (absent, not JSON, or JSON that is no object) is
\* answered with an error, and the step that answers it changes neither the
\* snapshot nor the five deques nor last_data_received, and emits nothing.
C4_MalformedReadingRejected ==
    [][\A h \in Handlers :
          (/\ idata'[h].kind # "object"
           /\ (idata'[h] # idata[h] \/ ires'[h] # ires[h]))
             => /\ ires'[h] = "error"
                /\ ipc'[h] = "idle"
                /\ vital_signs_data' = vital_signs_data
                /\ historical_data' = historical_data
                /\ last_data_received' = last_data_received
                /\ emits' = emits]_vars

\* a malformed reading has been refused after readings had been ingested
C4_Witness ==
    /\ idata[1].kind # "object"
    /\ ires[1] = "error"
    /\ ipc[1] = "idle"
    /\ Len(submitted) > 0
    /\ Len(emits) = Len(submitted)
    /\ vital_signs_data.connection_status = "Connected"

---------------------------------------------------------------------------
(* The history store *)

\* the steps of an append in context r, after the first
HistorySteps(r) ==
    \/ HistoryAppend(r)
    \/ \E ok \in BOOLEAN : SaveOpen(r, ok)
    \/ SaveDump(r)
    \/ \E ok \in BOOLEAN : SaveClose(r, ok)
    \/ HistoryEmitReturn(r)

\* Clients posting records and test records in two request contexts that may
\* overlap, file writes that may fail, the monitor thread.
NextHistory ==
    \/ Monitor
    \/ (now < StartTime + ShortTime /\ TickQuiescent)
    \/ \E r \in Handlers : \E body \in HistoryBodies : HistoryBegin(r, body)
    \/ \E r \in Handlers : TestBegin(r)
    \/ \E r \in Handlers : HistorySteps(r)

SpecHistory == Init /\ [][NextHistory]_vars

\* C5: a POST /api/vitals_history that is answered with an error because the
\* record is malformed or lacks required structure has appended nothing to
\* the in-memory collection and written nothing to the file.
C5_RejectedRecordNotStored ==
    \A r \in Handlers :
        (rpc[r] = "idle" /\ rkind[r] = "history" /\ rres[r] = "error")
            => (~rappended[r] /\ ~rwrote[r])

\* the record of the request in context r is in the in-memory collection
InMemory(r) == \E i \in DOMAIN vitals_history : vitals_history[i] = rrec[r]

\* C6: when the write to the file fails during an append, the caller gets an
\* error result, and the in-memory collection holds the new record.
C6_WriteFailureReported ==
    \A r \in Handlers :
        (rpc[r] = "idle" /\ rfailed[r]) => (rres[r] = "error" /\ InMemory(r))

\* C7: once the appends of both contexts have been answered with success, the
\* file holds the in-memory collection (here even where no write has failed).
C7_AcknowledgedMeansPersisted ==
    (\A r \in Handlers : rpc[r] = "idle" /\ rres[r] = "success" /\ ~rfailed[r])
        => Loaded(file) = vitals_history

---------------------------------------------------------------------------
(* Queries of the history *)

\* the records a history file may hold when the server starts
StoredRecords ==
    {RecComplete, RecOld, RecNoTrigger, RecNoVitals, TestRecord(StartTime)}

RECURSIVE SeqsUpTo(_, _)
SeqsUpTo(S, n) ==
    IF n = 0 THEN {<<>>}
    ELSE LET shorter == SeqsUpTo(S, n - 1)
         IN  shorter \cup {Append(q, x) : q \in {t \in shorter : Len(t) = n - 1}, x \in S}

\* the query strings: each parameter absent (an empty set of keys), empty
\* ('' or 0), or with a value
QueryArgs ==
    {Args(l[1] \cup p[1] \cup sd[1] \cup ed[1], l[2], p[2], sd[2], ed[2]) :
        l \in {<<{}, 0>>, <<{"limit"}, 0>>, <<{"limit"}, 1>>, <<{"limit"}, 2>>},
        p \in {<<{}, "">>, <<{"patient_id"}, "">>, <<{"patient_id"}, "A">>},
        sd \in {<<{}, <<>> >>, <<{"start_date"}, <<0, 5>> >>},
        ed \in {<<{}, <<>> >>, <<{"end_date"}, <<>> >>, <<{"end_date"}, <<1, 1>> >>}}

\* the server starts with a history file of up to MaxRecords records
InitQuery ==
    \E recs \in SeqsUpTo(StoredRecords, MaxRecords) :
        InitWith([recs |-> recs, valid |-> TRUE])

NextQuery == \E args \in QueryArgs : GetVitalsHistory(args)

SpecQuery == InitQuery /\ [][NextQuery]_vars

\* the number of entries of s that are x
Count(s, x) == Cardinality({i \in DOMAIN s : s[i] = x})

\* record r passes the filter that the query string gives for key
Passes(r, args, key) ==
    CASE key = "patient_id" -> "patient_id" \in r.has /\ r.patient_id = args.patient_id
      [] key = "start_date" -> StrGeq(RecTimestamp(r), args.start_date)
      [] key = "end_date" -> StrLeq(RecTimestamp(r), args.end_date)

FilterKeys == {"patient_id", "start_date", "end_date"}

\* the query string holds key with a value that is not the empty string
GivenNonEmpty(args, key) ==
    /\ key \in args.has
    /\ CASE key = "patient_id" -> args.patient_id # ""
         [] key = "start_date" -> Len(args.start_date) > 0
         [] key = "end_date" -> Len(args.end_date) > 0

\* the counts of a response are those of its records and of the collection
CountsAgree ==
    /\ qresp.filtered_count <= qresp.total_count
    /\ qresp.filtered_count = Len(qresp.records)
    /\ qresp.total_count = Len(vitals_history)

\* C8 as stated: for every collection and every combination of filters in the
\* query string, the counts agree and every returned record passes every
\* filter that the query string holds.
C8_EveryFilterInQueryString ==
    qresp.status = 200 =>
        /\ CountsAgree
        /\ \A i \in DOMAIN qresp.records : \A key \in FilterKeys \cap qargs.has :
               Passes(qresp.records[i], qargs, key)

\* C8, amended: for every collection and every combination of filters, the
\* counts agree and every returned record passes every filter that the query
\* string holds with a non-empty value.
C8_ReturnedRecordsPassFilters ==
    qresp.status = 200 =>
        /\ CountsAgree
        /\ \A i \in DOMAIN qresp.records : \A key \in FilterKeys :
               GivenNonEmpty(qargs, key) => Passes(qresp.records[i], qargs, key)

\* a query with all three filters that some records pass and others do not
C8_Witness ==
    /\ qresp.status = 200
    /\ FilterKeys \subseteq qargs.has
    /\ qargs.patient_id = "A"
    /\ qargs.end_date = <<1, 1>>
    /\ qresp.filtered_count >= 1
    /\ qresp.filtered_count < qresp.total_count

\* C9: the returned records are in descending order of timestamp, a record
\* without a timestamp counting as the empty string, which sorts last.
C9_SortedDescending ==
    qresp.status = 200 =>
        \A i, j \in DOMAIN qresp.records :
            i < j => StrGeq(RecTimestamp(qresp.records[i]),
                            RecTimestamp(qresp.records[j]))

\* three records came back, the one without a timestamp last although it
\* was the first in the collection
C9_Witness ==
    /\ qresp.status = 200
    /\ Len(qresp.records) = 3
    /\ "timestamp" \notin qresp.records[3].has
    /\ "timestamp" \notin vitals_history[1].has
    /\ RecTimestamp(qresp.records[1]) # RecTimestamp(qresp.records[2])

\* record r passes every filter the query applies
Matches(r, args) ==
    \A key \in FilterKeys : GivenNonEmpty(args, key) => Passes(r, args, key)

Matching(args) ==
    LET Keep(r) == Matches(r, args) IN SelectSeq(vitals_history, Keep)

\* C10: with a limit L >= 1 the response holds exactly the first min(L, m)
\* of the m matching records in descending order, filtered_count is
\* min(L, m), and no matching record left out is newer than one returned.
C10_LimitKeepsNewest ==
    (qresp.status = 200 /\ "limit" \in qargs.has /\ qargs.limit >= 1) =>
        LET all == Matching(qargs)
            n == Min(qargs.limit, Len(all))
            got == qresp.records
        IN  /\ Len(got) = n
            /\ qresp.filtered_count = n
            /\ got = SubSeq(SortedDescending(all), 1, n)
            /\ \A i \in DOMAIN all :
                   /\ Count(got, all[i]) <= Count(all, all[i])
                   /\ Count(got, all[i]) < Count(all, all[i]) =>
                          \A j \in DOMAIN got :
                              StrGeq(RecTimestamp(got[j]), RecTimestamp(all[i]))

\* a limit that cuts: more records match than the limit lets through, and the
\* newest of them was the last to arrive
C10_Witness ==
    /\ qresp.status = 200
    /\ "limit" \in qargs.has
    /\ qargs.limit = 2
    /\ Len(Matching(qargs)) = 3
    /\ Len(qresp.records) = 2
    /\ qresp.records[1] = vitals_history[Len(vitals_history)]
    /\ RecTimestamp(vitals_history[1]) # RecTimestamp(qresp.records[1])

---------------------------------------------------------------------------
(* A record posted and then queried *)

\* the server starts with a history file that leaves room for appends
InitPosts ==
    \E recs \in SeqsUpTo(StoredRecords, MaxAppends - 1) :
        InitWith([recs |-> recs, valid |-> TRUE])

\* One client posting records one after the other and listing the history
\* without filters, the monitor thread.
NextPosts ==
    \/ Monitor
    \/ (now < StartTime + ShortTime /\ TickQuiescent)
    \/ \E body \in HistoryBodies : HistoryBegin(1, body)
    \/ HistorySteps(1)
    \/ GetVitalsHistory(NoArgs)

SpecPosts == InitPosts /\ [][NextPosts]_vars

\* the POST /api/vitals_history answered last in context r carried a record
\* without a timestamp and was answered with success
Stamped(r) ==
    /\ rpc[r] = "idle"
    /\ rkind[r] = "history"
    /\ rreq[r].kind = "object"
    /\ "timestamp" \notin rreq[r].rec.has
    /\ rres[r] = "success"

\* the last query had no filters and saw the collection as it is now
FreshQuery ==
    /\ qargs = NoArgs
    /\ qresp.status = 200
    /\ qresp.total_count = Len(vitals_history)

\* the stored record of context r carries a timestamp that the server
\* generated from its clock
ServerStamped(r) ==
    /\ InMemory(r)
    /\ "timestamp" \in rrec[r].has
    /\ \E t \in StartTime..now : rrec[r].timestamp = isoformat(t)

\* record a has a smaller timestamp than record b
Older(a, b) == ~StrGeq(RecTimestamp(a), RecTimestamp(b))

\* C11 as stated: after a POST /api/vitals_history with a record lacking a
\* timestamp, the response includes the server-generated timestamp, the
\* stored record carries it, and a following GET /api/vitals_history with no
\* filters lists that record first, whatever the collection holds.
C11_StampedRecordListedFirst ==
    \A r \in Handlers :
        Stamped(r) =>
            /\ "timestamp" \in rout[r].has
            /\ ServerStamped(r)
            /\ FreshQuery => qresp.records[1] = rrec[r]

\* C11 amended: after such a POST the stored record carries a
\* server-generated timestamp, the response holds status, message and
\* record_id and no timestamp, and a following GET /api/vitals_history with
\* no filters lists the record before every record with a smaller timestamp:
\* first, when every other record of the collection has a smaller one.
C11_StampedRecordBeforeOlder ==
    \A r \in Handlers :
        Stamped(r) =>
            /\ rout[r].has = {"status", "message", "record_id"}
            /\ ServerStamped(r)
            /\ FreshQuery =>
                   /\ \E i \in DOMAIN qresp.records :
                          /\ qresp.records[i] = rrec[r]
                          /\ \A j \in DOMAIN qresp.records :
                                 Older(qresp.records[j], rrec[r]) => i < j
                   /\ (\A k \in DOMAIN vitals_history :
                           vitals_history[k] = rrec[r]
                               \/ Older(vitals_history[k], rrec[r]))
                          => qresp.records[1] = rrec[r]

\* a record posted without a timestamp is listed first, before an older one
C11_Witness ==
    /\ Stamped(1)
    /\ FreshQuery
    /\ Len(qresp.records) = 2
    /\ qresp.records[1] = rrec[1]
    /\ Older(qresp.records[2], rrec[1])

---------------------------------------------------------------------------
(* Appends and their broadcasts *)

\* the new_vitals_record events emitted so far that carry record rec
Broadcasts(rec) == Count(emits, Event("new_vitals_record", rec))

\* C12: every history append is broadcast exactly once: once no request is
\* in flight, every record has been emitted in a new_vitals_record event as
\* many times as POST /api/vitals_history and POST /api/test have appended
\* it, and the events emitted are as many as the records appended.
C12_EveryAppendBroadcastOnce ==
    (\A r \in Handlers : rpc[r] = "idle") =>
        /\ \A i \in DOMAIN vitals_history :
               Broadcasts(vitals_history[i]) = Count(vitals_history, vitals_history[i])
        /\ Len(emits) = Len(vitals_history)

---------------------------------------------------------------------------
(* Clients connecting to the socket *)

\* a query with filters and a limit
FilteredArgs == Args({"limit", "patient_id"}, 1, "A", <<>>, <<>>)

\* the server starts with a history file of up to MaxRecords records of any
\* kind, or of up to MaxStored records of two kinds
InitConnect ==
    \E recs \in SeqsUpTo(StoredRecords, MaxRecords)
                    \cup SeqsUpTo({RecOld, TestRecord(StartTime)}, MaxStored) :
        InitWith([recs |-> recs, valid |-> TRUE])

\* Clients connecting and querying a stored history, the monitor thread.
NextConnect ==
    \/ Monitor
    \/ HandleConnect
    \/ \E args \in {NoArgs, FilteredArgs} : GetVitalsHistory(args)

SpecConnect == InitConnect /\ [][NextConnect]_vars

\* out is the n newest records of coll, newest first: n of its records, in
\* descending order of timestamp, and no record left out is newer than one
\* that is in
NewestOf(out, coll, n) ==
    /\ Len(out) = Min(n, Len(coll))
    /\ \A i, j \in DOMAIN out :
           i < j => StrGeq(RecTimestamp(out[i]), RecTimestamp(out[j]))
    /\ \A i \in DOMAIN out : Count(out, out[i]) <= Count(coll, out[i])
    /\ \A k \in DOMAIN coll :
           Count(out, coll[k]) < Count(coll, coll[k])
               => \A i \in DOMAIN out :
                      StrGeq(RecTimestamp(out[i]), RecTimestamp(coll[k]))

\* C13: a client that connects is sent the current snapshot and then the
\* min(10, n) newest records of the whole collection of n records, newest
\* first, whatever filters the queries before it had.
C13_ConnectSendsNewestRecords ==
    [][sub' # sub =>
          /\ Len(sub') = 2
          /\ sub'[1] = Event("vital_signs_update", vital_signs_data)
          /\ sub'[2].event = "vitals_history_update"
          /\ NewestOf(sub'[2].data, vitals_history, RECENT_RECORDS)]_vars

\* a client has connected after a filtered query, to a collection of more
\* records than it is sent, the oldest of them stored first
C13_Witness ==
    /\ Len(sub) = 2
    /\ qargs = FilteredArgs /\ qresp.status = 200
    /\ Len(vitals_history) > RECENT_RECORDS
    /\ Len(sub[2].data) = RECENT_RECORDS
    /\ Older(vitals_history[1], vitals_history[Len(vitals_history)])
    /\ sub[1].data.connection_status = "Disconnected"

---------------------------------------------------------------------------
(* The snapshot after an ingestion *)

\* One device posting readings one after the other, clients reading the
\* snapshot, the monitor thread.
NextSnapshot ==
    \/ Monitor
    \/ (now < StartTime + ShortTime /\ TickQuiescent)
    \/ \E data \in {PayloadEmpty, PayloadPartial, PayloadFull} :
           Len(submitted) < MaxLiveIngest /\ IngestBuild(1, data)
    \/ IngestSteps(1)
    \/ GetVitalSigns

SpecSnapshot == Init /\ [][NextSnapshot]_vars

\* the ingestion of context 1 has been answered with success, and no timeout
\* has passed since
Settled ==
    /\ ipc[1] = "idle"
    /\ ires[1] = "success"
    /\ now - last_data_received <= CONNECTION_TIMEOUT

\* snapshot snap has the value of payload P for every field P supplies, 0
\* for every other numeric field, 'Unknown' for every other status field,
\* and is Connected
AsPosted(snap, P) ==
    /\ \A k \in NumKeys : snap[k] = IF k \in P.has THEN P.v[k] ELSE 0
    /\ \A k \in StrKeys : snap[k] = IF k \in P.has THEN P.v[k] ELSE "Unknown"
    /\ snap.connection_status = "Connected"

\* C14: after a successful ingestion of payload P the snapshot has P's value
\* for every field supplied and the default (0, 'Unknown') for every field
\* not supplied, connection_status is 'Connected', the last entry of the bpm
\* deque is P's bpm (0 if absent), and a GET /api/vital_signs that follows
\* returns that snapshot.
C14_SnapshotAsPosted ==
    [][Settled =>
          /\ AsPosted(vital_signs_data, idata[1])
          /\ historical_data.bpm # <<>>
          /\ historical_data.bpm[Len(historical_data.bpm)] = Get(idata[1], "bpm", 0)
          /\ gresp' # gresp => gresp' = vital_signs_data]_vars

---------------------------------------------------------------------------
(* Record identifiers *)

\* record rec was synthesised by POST /api/test
Synthesised(rec) == "record_id" \in rec.has /\ rec.record_id[1] = "test_record"

\* C15: every record of the collection has a record_id, supplied by the
\* caller or assigned by the server, and any two records synthesised by
\* POST /api/test have different record_ids.
C15_RecordIdsAssignedAndUnique ==
    /\ \A i \in DOMAIN vitals_history : "record_id" \in vitals_history[i].has
    /\ \A i, j \in DOMAIN vitals_history :
           (i # j /\ Synthesised(vitals_history[i]) /\ Synthesised(vitals_history[j]))
               => vitals_history[i].record_id # vitals_history[j].record_id

---------------------------------------------------------------------------
(* The whole server *)

\* no request of the client is being handled
NoRequest == ipc[1] = "idle" /\ rpc[1] = "idle"

\* One client using every endpoint and the socket, one request after the
\* other, and the first pass of the monitor thread beside it.
NextServer ==
    \/ Monitor
    \/ \E data \in {PayloadFull, PayloadNonObject} :
           /\ NoRequest
           /\ Len(submitted) < MaxServerIngest
           /\ IngestBuild(1, data)
    \/ IngestSteps(1)
    \/ \E body \in {HBody("object", RecNoTimestamp), HBody("nonobject", RecNoVitals)} :
           /\ NoRequest
           /\ Len(vitals_history) <= MaxServerAppends
           /\ HistoryBegin(1, body)
    \/ (NoRequest /\ Len(vitals_history) <= MaxServerAppends /\ TestBegin(1))
    \/ HistorySteps(1)
    \/ (NoRequest /\ GetVitalsHistory(FilteredArgs))
    \/ (NoRequest /\ GetVitalSigns)
    \/ (NoRequest /\ HandleConnect)

\* the server starts with a history file of one record
InitServer == InitWith([recs |-> <<RecOld>>, valid |-> TRUE])

SpecServer == InitServer /\ [][NextServer]_vars

\* this step is the monitor's write of connection_status
MonitorWrites == monpc = "set_connection" /\ monpc' = "set_monitoring"

\* this step is the snapshot update of an ingestion call
IngestionWrites == \E h \in Handlers : ipc[h] = "update" /\ ipc'[h] = "clock"

\* C19: connection_status goes from 'Connected' to 'Disconnected' only in a
\* step of the monitor, and from 'Disconnected' to 'Connected' only in the
\* update of an ingestion call that succeeds; no step of any other operation
\* changes it, and the update sets 'Connected' whatever connection_status
\* the payload supplies.
C19_StatusChangedByMonitorOrIngestion ==
    [][/\ (vital_signs_data.connection_status = "Connected"
            /\ vital_signs_data'.connection_status # "Connected") => MonitorWrites
       /\ (vital_signs_data.connection_status = "Disconnected"
            /\ vital_signs_data'.connection_status # "Disconnected") => IngestionWrites
       /\ vital_signs_data'.connection_status \in {"Connected", "Disconnected"}
       /\ IngestionWrites => vital_signs_data'.connection_status = "Connected"]_vars

\* a reading that supplied connection_status 'Disconnected' has been
\* ingested with success, the monitor has demoted the snapshot it gave, and
\* the other operations have run
C19_Witness ==
    /\ idata[1] = PayloadFull /\ ires[1] = "success" /\ ipc[1] = "idle"
    /\ vital_signs_data.bpm = PayloadFull.v.bpm
    /\ vital_signs_data.connection_status = "Disconnected"
    /\ gresp.connection_status = "Connected"
    /\ rappended[1] /\ rpc[1] = "idle"
    /\ qresp.status = 200
    /\ Len(sub) = 2

\* sequence a is the beginning of sequence b
IsPrefix(a, b) == Len(a) <= Len(b) /\ SubSeq(b, 1, Len(a)) = a

\* C16: the in-memory collection is append-only: every step of every
\* operation (ingestion, history POST, test POST, query, subscribe, GET,
\* monitor pass, clock) leaves the collection as it was or longer with the
\* old collection as its beginning, so the collection of every earlier state
\* is a prefix of that of every later state.
C16_HistoryAppendOnly == [][IsPrefix(vitals_history, vitals_history')]_vars

\* a record has been appended behind the stored one, and the collection has
\* been queried and sent to a connecting client since
C16_Witness ==
    /\ Len(vitals_history) = 2
    /\ vitals_history[1] = RecOld
    /\ rpc[1] = "idle" /\ rappended[1]
    /\ qresp.status = 200 /\ qresp.total_count = 2
    /\ Len(sub) = 2 /\ Len(sub[2].data) = 2
    /\ gresp.connection_status = "Connected"

---------------------------------------------------------------------------
(* Ingestion calls that overlap *)

\* Two devices posting readings in two request contexts that may overlap,
\* the clock running while they do (the monitor thread is in its sleep).
NextRace ==
    \/ (now < StartTime + ShortTime /\ Tick)
    \/ \E h \in Handlers : \E data \in {PayloadPartial, PayloadFull} :
           Len(submitted) < MaxLiveIngest /\ IngestBuild(h, data)
    \/ \E h \in Handlers : IngestSteps(h)

SpecRace == Init /\ [][NextRace]_vars

\* C17: the snapshot's last_update never decreases, also where two
\* ingestion calls overlap.
C17_LastUpdateNeverDecreases ==
    [][StrLeq(vital_signs_data.last_update, vital_signs_data'.last_update)]_vars

\* the five deques
BufferKeys == {"bpm", "spo2", "respiration_rate", "temperature", "timestamps"}

\* entry i of the four metric deques is what one reading gave
OneReading(i) ==
    \E k \in DOMAIN submitted :
        \A m \in DOMAIN MetricKey :
            historical_data[m][i] = Get(submitted[k], MetricKey[m], 0)

\* C18: the five deques have the same length, at most the capacity, and
\* entry i of each of them comes from the same reading, also where two
\* ingestion calls have interleaved their appends (here: in every state in
\* which no ingestion is in flight).
C18_BuffersAligned ==
    (\A h \in Handlers : ipc[h] = "idle") =>
        /\ \A m \in BufferKeys :
               /\ Len(historical_data[m]) = Len(historical_data.bpm)
               /\ Len(historical_data[m]) <= MaxLen
        /\ \A i \in DOMAIN historical_data.bpm : OneReading(i)

---------------------------------------------------------------------------
(* The monitor's two writes *)

\* C20: the monitor's two writes take effect together: in no state is
\* connection_status 'Connected' while monitoring_status is the
\* 'DISCONNECTED' that the monitor wrote (no reading here supplies
\* monitoring_status 'DISCONNECTED', so only the monitor writes it).
C20_DemotionIsAtomic ==
    ~(/\ vital_signs_data.connection_status = "Connected"
      /\ vital_signs_data.monitoring_status = "DISCONNECTED")

====
